---- MODULE Spec2Model ----
(***************************************************************************)
(* slex: one command multiplexed over SSH to many hosts.                   *)
(*                                                                         *)
(* The module models multiplexAction (main.go) with its worker pool, the  *)
(* renderer goroutine, runSSH's walk over the authentication methods,      *)
(* sshClientConfig.NewSession and the session runner.                      *)
(*                                                                         *)
(* Strings are sequences of tokens: a token is either one delimiter        *)
(* character (":", "[", "]") or a word that holds no delimiter.  The empty *)
(* string is << >>.                                                        *)
(***************************************************************************)
EXTENDS Integers, Sequences, FiniteSets, TLC

----------------------------------------------------------------------------
(* Bounds of the model                                                     *)

MaxHosts == 2
MaxConcurrent == 2
MaxEnv == 1
MaxLines == 1
MaxConfigLines == 3
MaxPlainOpts == 2
MaxHostLen == 5

(* Program constants                                                       *)

WorkCap == 64

----------------------------------------------------------------------------
(* Strings                                                                 *)

Empty == << >>
Colon == ":"
LBracket == "["
RBracket == "]"
Port22 == <<"2", "2">>
AgentKey == <<"ssh-agent">>

Contains(s, c) == \E i \in 1..Len(s) : s[i] = c

\* index of the last c in s, 0 when there is none
LastIndex(s, c) ==
    IF Contains(s, c) THEN CHOOSE i \in 1..Len(s) : s[i] = c /\ \A k \in (i+1)..Len(s) : s[k] # c
    ELSE 0

\* index of the first c in s, 0 when there is none
FirstIndex(s, c) ==
    IF Contains(s, c) THEN CHOOSE i \in 1..Len(s) : s[i] = c /\ \A k \in 1..(i-1) : s[k] # c
    ELSE 0

Slice(s, from, to) == IF from > to THEN Empty ELSE SubSeq(s, from, to)

\* net.SplitHostPort as cleanHost uses it: [ok, missingPort, host, port]
SplitHostPort(hostport) ==
    LET fail(missing) == [ok |-> FALSE, missingPort |-> missing, host |-> Empty, port |-> Empty]
        i == LastIndex(hostport, Colon)
        n == Len(hostport)
    IN  IF i = 0 THEN fail(TRUE)
        ELSE IF hostport[1] = LBracket
        THEN LET end == FirstIndex(hostport, RBracket)
             IN  IF end = 0 THEN fail(FALSE)
                 ELSE IF end = n THEN fail(TRUE)
                 ELSE IF end + 1 # i
                      THEN fail(hostport[end + 1] # Colon)
                 ELSE IF Contains(Slice(hostport, 2, n), LBracket) THEN fail(FALSE)
                 ELSE IF Contains(Slice(hostport, end + 1, n), RBracket) THEN fail(FALSE)
                 ELSE [ok |-> TRUE, missingPort |-> FALSE,
                       host |-> Slice(hostport, 2, end - 1), port |-> Slice(hostport, i + 1, n)]
        ELSE LET host == Slice(hostport, 1, i - 1)
             IN  IF Contains(host, Colon) THEN fail(FALSE)
                 ELSE IF Contains(hostport, LBracket) THEN fail(FALSE)
                 ELSE IF Contains(hostport, RBracket) THEN fail(FALSE)
                 ELSE [ok |-> TRUE, missingPort |-> FALSE,
                       host |-> host, port |-> Slice(hostport, i + 1, n)]

\* net.JoinHostPort
JoinHostPort(host, port) ==
    IF Contains(host, Colon)
    THEN <<LBracket>> \o host \o <<RBracket, Colon>> \o port
    ELSE host \o <<Colon>> \o port

\* cleanHost: [err, host]
cleanHost(host) ==
    LET sp == SplitHostPort(host)
    IN  IF ~sp.ok /\ ~sp.missingPort THEN [err |-> TRUE, host |-> Empty]
        ELSE LET h == IF sp.ok THEN sp.host ELSE host
                 port == IF ~sp.ok \/ sp.port = Empty THEN Port22 ELSE sp.port
             IN  [err |-> FALSE, host |-> JoinHostPort(h, port)]

----------------------------------------------------------------------------
(* SSH client options                                                      *)

Yes == <<"yes">>
No == <<"no">>
Star == <<"*">>

\* the zero value of SSHClientOptions
ZeroOptions ==
    [ForwardAgent |-> Empty, Host |-> Empty, HostName |-> Empty, IdentityFile |-> Empty,
     Port |-> Empty, ProxyCommand |-> Empty, User |-> Empty]

\* the value ParseOptions starts from
DefaultOptions == [ZeroOptions EXCEPT !.Host = Star, !.Port = Port22]

OptionFields == DOMAIN ZeroOptions

\* command-line value if present, else config-file value
getEffectiveClientOptions(configFileOptions, cliOpts) ==
    [f \in OptionFields |-> IF cliOpts[f] # Empty THEN cliOpts[f] ELSE configFileOptions[f]]

\* sections[host], or any section when the host names none
SectionOfAny(secs, host) ==
    IF host \in DOMAIN secs THEN secs[host]
    ELSE IF DOMAIN secs = {} THEN ZeroOptions
    ELSE secs[CHOOSE k \in DOMAIN secs : TRUE]

\* sections[host]: a missing key gives the zero value
SectionOf(secs, host) == IF host \in DOMAIN secs THEN secs[host] ELSE ZeroOptions

----------------------------------------------------------------------------
(* The ssh config parser                                                   *)
(* Text is a sequence of one-character strings.                            *)

Space == " "
Tab == "\t"
Equals == "="
Hash == "#"
Newline == "\n"

UpperCase == <<"A", "B", "C", "D", "E", "F", "G", "H", "I", "J", "K", "L", "M",
               "N", "O", "P", "Q", "R", "S", "T", "U", "V", "W", "X", "Y", "Z">>
LowerCase == <<"a", "b", "c", "d", "e", "f", "g", "h", "i", "j", "k", "l", "m",
               "n", "o", "p", "q", "r", "s", "t", "u", "v", "w", "x", "y", "z">>
Digits == <<"0", "1", "2", "3", "4", "5", "6", "7", "8", "9">>

\* the class \s
IsSpace(c) == c \in {Space, Tab, Newline}

\* the class \w
IsWord(c) == \/ \E i \in DOMAIN UpperCase : c = UpperCase[i] \/ c = LowerCase[i]
             \/ \E i \in DOMAIN Digits : c = Digits[i]
             \/ c = "_"

AllSpace(s, from, to) == \A k \in from..to : IsSpace(s[k])
AllWord(s, from, to) == \A k \in from..to : IsWord(s[k])

\* strings.ToLower without lowering anything
ToLowerNone(s) == s

\* strings.ToLower
ToLower(s) ==
    [k \in 1..Len(s) |->
        IF \E i \in DOMAIN UpperCase : s[k] = UpperCase[i]
        THEN LowerCase[CHOOSE i \in DOMAIN UpperCase : s[k] = UpperCase[i]]
        ELSE s[k]]

\* strings.HasPrefix
HasPrefix(s, prefix) ==
    Len(s) >= Len(prefix) /\ SubSeq(s, 1, Len(prefix)) = prefix

\* strings.Split(s, "\n")
RECURSIVE Split(_)
Split(s) ==
    LET i == FirstIndex(s, Newline)
    IN  IF i = 0 THEN <<s>>
        ELSE <<Slice(s, 1, i - 1)>> \o Split(Slice(s, i + 1, Len(s)))

\* a is before b in the order in which a backtracking match prefers its choices:
\* the leftmost start first, then the longest of each greedy piece in turn
RECURSIVE Preferred(_, _)
Preferred(a, b) ==
    IF a = << >> THEN TRUE
    ELSE IF Head(a) # Head(b) THEN Head(a) > Head(b)
    ELSE Preferred(Tail(a), Tail(b))

First(matches) == CHOOSE a \in matches : \A b \in matches : Preferred(a, b)

NoMatch == [ok |-> FALSE, key |-> Empty, value |-> Empty]

\* the ways \s*=?\s*(.+) matches s from index r to the end: <<a, e, c>> where the
\* first \s* ends before a, e is 1 when =? took a character, and (.+) starts at c
Separators(s, r, withEquals) ==
    LET n == Len(s)
    IN  UNION {UNION {{<<a, e, c>> : c \in {x \in (a + e)..n : AllSpace(s, a + e, x - 1)}}
                      : e \in {x \in {0, 1} : x = 1 => withEquals /\ a <= n /\ s[a] = Equals}}
               : a \in {x \in r..(n + 1) : AllSpace(s, r, x - 1)}}

\* the ways \s*(\w+)\s*=?\s*(.+) matches s: <<-q, r, a, e, c>> where (\w+) is s[q..r-1]
OptionMatches(s, withEquals) ==
    LET n == Len(s)
    IN  UNION {UNION {{<<0 - q, r>> \o t : t \in Separators(s, r, withEquals)}
                      : r \in {x \in (q + 1)..(n + 1) : AllWord(s, q, x - 1)}}
               : q \in 1..n}

FindOption(text, withEquals) ==
    LET ms == OptionMatches(text, withEquals)
    IN  IF ms = {} THEN NoMatch
        ELSE LET m == First(ms)
             IN  [ok |-> TRUE, key |-> SubSeq(text, 0 - m[1], m[2] - 1),
                  value |-> SubSeq(text, m[5], Len(text))]

\* optionExpr with the =? left out of the expression
optionExprNoEquals(text) == FindOption(text, FALSE)

\* optionExpr.FindStringSubmatch(text): m[1] is key, m[2] is value, ok is m # nil
optionExpr(text) == FindOption(text, TRUE)

KwHostLine == <<"H", "o", "s", "t">>

\* the ways \s*Host\s*=?\s*(.+) matches s: <<-q, a, e, c>> where Host is s[q..q+3]
HostMatches(s) ==
    UNION {{<<0 - q>> \o t : t \in Separators(s, q + 4, TRUE)}
           : q \in {x \in 1..(Len(s) - 3) : SubSeq(s, x, x + 3) = KwHostLine}}

\* hostExpr.FindStringSubmatch(text): m[1] is value
hostExpr(text) ==
    LET ms == HostMatches(text)
    IN  IF ms = {} THEN NoMatch
        ELSE LET m == First(ms)
             IN  [ok |-> TRUE, key |-> KwHostLine, value |-> SubSeq(text, m[4], Len(text))]

\* the keywords of the switch in ParseOptions and the fields they set
Keywords ==
    [Host |-> <<"h", "o", "s", "t">>,
     HostName |-> <<"h", "o", "s", "t", "n", "a", "m", "e">>,
     User |-> <<"u", "s", "e", "r">>,
     Port |-> <<"p", "o", "r", "t">>,
     ForwardAgent |-> <<"f", "o", "r", "w", "a", "r", "d", "a", "g", "e", "n", "t">>,
     IdentityFile |-> <<"i", "d", "e", "n", "t", "i", "t", "y", "f", "i", "l", "e">>,
     ProxyCommand |-> <<"p", "r", "o", "x", "y", "c", "o", "m", "m", "a", "n", "d">>]

\* one pass of the switch: the field named by key takes value
SetOption(options, key, value) ==
    [f \in OptionFields |-> IF Keywords[f] = key THEN value ELSE options[f]]

\* the loop of ParseOptions from entry k on; m[1] of a nil match is a runtime panic
RECURSIVE ParseOptionsFrom(_, _, _)
ParseOptionsFrom(plainOpts, k, options) ==
    IF k > Len(plainOpts) THEN [panic |-> FALSE, options |-> options]
    ELSE LET m == optionExpr(plainOpts[k])
         IN  IF ~m.ok THEN [panic |-> TRUE, options |-> options]
             ELSE ParseOptionsFrom(plainOpts, k + 1,
                                   SetOption(options, ToLower(m.key), m.value))

\* ParseOptions: [panic, options]
ParseOptions(plainOpts) == ParseOptionsFrom(plainOpts, 1, DefaultOptions)

NoSections == << >>

\* sections[host] = options
Put(secs, host, options) ==
    [k \in DOMAIN secs \cup {host} |-> IF k = host THEN options ELSE secs[k]]

\* a line the scan never skips
IsCommentNever(text) == FALSE

\* strings.HasPrefix(text, "#")
IsComment(text) == HasPrefix(text, <<Hash>>)

\* the loop of ParseSSHConfigFile at index i (counted from 0, as in the source),
\* with the current value of end; lines[i:end] with i > end is a runtime panic
RECURSIVE Scan(_, _, _, _)
Scan(lines, i, end, secs) ==
    IF i < 0 THEN [panic |-> FALSE, sections |-> secs]
    ELSE LET text == lines[i + 1]
             m == hostExpr(text)
         IN  IF IsComment(text) \/ ~m.ok THEN Scan(lines, i - 1, end, secs)
             ELSE IF i > end THEN [panic |-> TRUE, sections |-> secs]
             ELSE LET p == ParseOptions(Slice(lines, i + 1, end))
                  IN  IF p.panic THEN [panic |-> TRUE, sections |-> secs]
                      ELSE Scan(lines, i - 1, i - 1, Put(secs, m.value, p.options))

\* ParseSSHConfigFile on a file that is missing or has the given content:
\* [panic, sections]
ParseSSHConfigFile(file) ==
    IF ~file.exists THEN [panic |-> FALSE, sections |-> NoSections]
    ELSE LET lines == Split(file.content)
         IN  Scan(lines, Len(lines) - 1, Len(lines) - 1, NoSections)

----------------------------------------------------------------------------
(* Inputs                                                                  *)

HostA == <<"a">>
HostB == <<"b", ":", "2222">>
HostBad == <<"x", ":", ":", "1">>
HostChoices == {HostA, HostB, HostBad}

KeyA == <<"ka">>
IdRsa == <<"id_rsa">>
CliIdentity == <<"ki">>
ProxyCmd == <<"nc %h %p">>

\* the default identity files of defaultAuthMethods (under ~/.ssh)
DefaultIdentityFiles == << <<"id_dsa">>, <<"id_ecdsa">>, <<"id_ed25519">>, IdRsa >>

\* ~/.ssh/config as parsed: one section, for host a
OneSection == [k \in {HostA} |->
                 [DefaultOptions EXCEPT !.Host = HostA, !.IdentityFile = KeyA, !.ForwardAgent = Yes]]
SectionChoices == {OneSection}

\* the identity files on disk that can be loaded
LoadableChoices == {{KeyA}, {KeyA, IdRsa}}

\* -o options as parsed: none, or a ProxyCommand
CliChoices == {DefaultOptions, [DefaultOptions EXCEPT !.ProxyCommand = ProxyCmd]}

HostLists == UNION {[1..n -> HostChoices] : n \in 0..MaxHosts}

\* a line of text as it is written: what it is meant to be (kind), the field its
\* keyword names ("none" when it names none), and its pieces
Line(kind, field, pre, key, sep, val) ==
    [kind |-> kind, field |-> field, pre |-> pre, key |-> key, sep |-> sep, val |-> val]

\* the text of a line
Text(l) == l.pre \o l.key \o l.sep \o l.val

Texts(ls) == [k \in 1..Len(ls) |-> Text(ls[k])]

Indent == <<Space, Space>>
Port2222 == <<"2", "2", "2", "2">>

HostLine(token) == Line("host", "Host", Empty, KwHostLine, <<Space>>, token)
UserLine == Line("option", "User", Indent, <<"U", "s", "e", "r">>, <<Space>>, <<"x">>)
PortLine == Line("option", "Port", Indent, <<"P", "o", "r", "t">>, <<Space>>, Port2222)
HostNameLine ==
    Line("option", "HostName", Indent, <<"H", "o", "s", "t", "N", "a", "m", "e">>, <<Space>>,
         <<"h">>)
CommentLine == Line("comment", "none", <<Hash>>, KwHostLine, <<Space>>, <<"c">>)
BlankLine == Line("blank", "none", Empty, Empty, Empty, Empty)
OneCharLine == Line("malformed", "none", Empty, <<"x">>, Empty, Empty)

\* the lines a config file is made of
ConfigLines == {HostLine(<<"a">>), HostLine(<<"b">>), UserLine, PortLine, HostNameLine,
                CommentLine, BlankLine}

MissingFile == [exists |-> FALSE, lines |-> << >>, newline |-> FALSE]

\* ~/.ssh/config: missing, or some lines with or without a newline after the last
ConfigFiles ==
    {MissingFile} \cup
    {[exists |-> TRUE, lines |-> ls, newline |-> nl] :
        ls \in UNION {[1..n -> ConfigLines] : n \in 0..MaxConfigLines}, nl \in BOOLEAN}

\* a file with one section, for host a, that sets the port and the user
PortFile == [exists |-> TRUE, lines |-> <<HostLine(<<"a">>), PortLine, UserLine>>,
             newline |-> TRUE]

RECURSIVE Join(_)
Join(texts) ==
    IF texts = << >> THEN Empty
    ELSE IF Len(texts) = 1 THEN texts[1]
    ELSE texts[1] \o <<Newline>> \o Join(Tail(texts))

\* the bytes of a config file
Content(file) == Join(Texts(file.lines)) \o (IF file.newline THEN <<Newline>> ELSE Empty)

\* the four ways of writing an option
Separators4 == {<<Space>>, <<Equals>>, <<Space, Equals, Space>>, <<Tab>>}

\* the -o entries: a port or a user in each of the four ways (the user's keyword in
\* capitals), a keyword that names no field, an empty and a one-character entry
PlainEntries ==
    {Line("option", "Port", Empty, <<"P", "o", "r", "t">>, sep, Port22) : sep \in Separators4}
    \cup {Line("option", "User", Empty, <<"U", "S", "E", "R">>, sep, <<"y">>) : sep \in Separators4}
    \cup {Line("unknown", "none", Empty, <<"F", "o", "o">>, <<Space>>, <<"z">>),
          BlankLine, OneCharLine}

PlainLists == UNION {[1..n -> PlainEntries] : n \in 0..MaxPlainOpts}

\* the characters of a host string: a letter and the delimiters of host:port
HostChars == {"a", Colon, LBracket, RBracket}

HostStrings == UNION {[1..n -> HostChars] : n \in 1..MaxHostLen}

----------------------------------------------------------------------------
(* State                                                                   *)

VARIABLES
    hosts,        \* --host / --hosts as given
    concurrent,   \* --concurrency
    agentFlag,    \* -A
    quiet,        \* --quiet
    envN,         \* number of variables in c.Env
    cliOptions,   \* ParseOptions(--option ...)
    sections,     \* ParseSSHConfigFile(~/.ssh/config)
    loadable,     \* identity files newSSHPublicKeyAuthMethod can load
    mainpc,       \* position of multiplexAction
    mainErr,      \* its returned error
    agt,          \* the agent handle is non-nil
    built,        \* keys of the map defaultAuthMethods returned
    methods,      \* keys of the shared methods map
    writers,      \* workers inside the assignment methods[k] = m
    work,         \* the work channel's buffer
    workClosed,
    signalClosed,
    job,          \* []*job
    hist,         \* per job: what was done for it (history)
    wk,           \* per worker: position and locals of executeCommand/runSSH
    sent,         \* jobs multiplexAction has put on the work channel
    rpc,          \* position of the renderer goroutine
    shown,        \* per job: what the last render pass printed for it
    panicked,     \* the process died of a runtime panic or fatal error
    configFile,   \* ~/.ssh/config as written
    plainOpts,    \* the -o entries as written
    cpc,          \* position in the part of the run that reads the configuration
    effective,    \* what getEffectiveClientOptions returned for the first host
    cleaned,      \* what cleanHost returned: for the first host, then for its own result
    dialled       \* job.host when runSSH builds the client configuration

vars == <<hosts, concurrent, agentFlag, quiet, envN, cliOptions, sections, loadable,
          mainpc, mainErr, agt, built, methods, writers, work, workClosed, signalClosed,
          job, hist, wk, sent, rpc, shown, panicked,
          configFile, plainOpts, cpc, effective, cleaned, dialled>>

inputs == <<hosts, concurrent, agentFlag, quiet, envN, cliOptions, sections, loadable>>

\* the reading of the configuration
conf == <<configFile, plainOpts, cpc, effective, cleaned, dialled>>

\* what multiplexAction sets before the workers start
setup == <<agt, built>>

Jobs == DOMAIN job
Workers == DOMAIN wk

NoJob == 0

IdleWorker == [pc |-> "recv", job |-> NoJob, sess |-> "nil", err |-> FALSE,
               snap |-> {}, env |-> 0, out |-> 0]

\* taken, by: receives of the job from the work channel and the workers that received it;
\* cleans, runs, done: calls of cleanHost and runSSH, returns of runSSH;
\* empty: the methods map was empty when the loop over it began;
\* order, won: keys of the methods attempted, key of the one whose NewSession gave no error;
\* conn, opened, fwd: an attempt got a connection, how many attempts got one, agent
\* forwarding was asked for on one;
\* setenvs, envfail, cmds, closes: calls of Setenv, a failed one, calls of Run and of Close;
\* closed: what sshSession.Close closed, in order; pipes: the pipes of the last proxy
\* command transport on which Close was called, in order;
\* sig: signals the renderer received from the job's writer
NewHist == [taken |-> 0, by |-> {}, cleans |-> 0, runs |-> 0, done |-> 0, empty |-> FALSE,
            order |-> << >>, won |-> Empty, conn |-> FALSE, opened |-> 0, fwd |-> FALSE,
            setenvs |-> 0, envfail |-> FALSE, cmds |-> 0, closes |-> 0,
            closed |-> << >>, pipes |-> << >>, sig |-> 0]

\* nothing printed yet for a job
NotShown == [kind |-> "none", data |-> << >>]

Start ==
    /\ mainpc = "setup"
    /\ mainErr = "nil"
    /\ agt = FALSE
    /\ built = {}
    /\ methods = {}
    /\ writers = {}
    /\ work = << >>
    /\ workClosed = FALSE
    /\ signalClosed = FALSE
    /\ job = << >>
    /\ hist = << >>
    /\ wk = << >>
    /\ sent = 0
    /\ rpc = "none"
    /\ shown = << >>
    /\ panicked = FALSE

\* the configuration has been read: what was parsed is in cliOptions and sections
ConfRead ==
    /\ configFile = MissingFile
    /\ plainOpts = << >>
    /\ cpc = "read"
    /\ effective = ZeroOptions
    /\ cleaned = << >>
    /\ dialled = Empty

----------------------------------------------------------------------------
(* multiplexAction                                                         *)

Range(s) == {s[i] : i \in 1..Len(s)}

\* defaultAuthMethods keeping an identity file it could not load
defaultAuthMethodsNoSkip(identityFiles, agtGiven, signersOK, load) ==
    LET files == IF Len(identityFiles) = 0 THEN DefaultIdentityFiles ELSE identityFiles
    IN  (IF agtGiven /\ signersOK THEN {AgentKey} ELSE {}) \cup Range(files)

\* defaultAuthMethods: the keys of the map it returns
defaultAuthMethods(identityFiles, agtGiven, signersOK, load) ==
    LET files == IF Len(identityFiles) = 0 THEN DefaultIdentityFiles ELSE identityFiles
    IN  (IF agtGiven /\ signersOK THEN {AgentKey} ELSE {})
        \cup {f \in Range(files) : f \in load}

NewJob(host) == [host |-> host, config |-> SectionOf(sections, host), err |-> "nil", lines |-> << >>]

\* a setup error that is returned after the workers were started
SetupFailLate(reason) ==
    /\ ~panicked
    /\ mainpc = "setup"
    /\ reason \in {"no command", "hosts file", "config file", "no host", "agent"}
    /\ reason = "no host" => Len(hosts) = 0
    /\ reason = "agent" => Len(hosts) > 0 /\ agentFlag
    /\ wk' = [w \in 1..concurrent |-> IdleWorker]
    /\ mainpc' = "returned"
    /\ mainErr' = reason
    /\ UNCHANGED <<inputs, conf, shown, setup, methods, writers, work, workClosed, signalClosed,
                   job, hist, sent, rpc, panicked>>

\* a setup error: multiplexAction returns it
SetupFail(reason) ==
    /\ ~panicked
    /\ mainpc = "setup"
    /\ reason \in {"no command", "hosts file", "config file", "no host", "agent"}
    /\ reason = "no host" => Len(hosts) = 0
    /\ reason = "agent" => Len(hosts) > 0 /\ agentFlag
    /\ mainpc' = "returned"
    /\ mainErr' = reason
    /\ UNCHANGED <<inputs, conf, shown, setup, methods, writers, work, workClosed, signalClosed,
                   job, hist, wk, sent, rpc, panicked>>

\* the setup starting one worker more than --concurrency (i <= concurrent)
SetupOKExtraWorker(identity, signersOK) ==
    /\ ~panicked
    /\ mainpc = "setup"
    /\ Len(hosts) > 0
    /\ agt' = agentFlag
    /\ built' = defaultAuthMethods(IF identity = Empty THEN << >> ELSE <<identity>>,
                                   agentFlag, signersOK, loadable)
    /\ methods' = built'
    /\ wk' = [w \in 1..(concurrent + 1) |-> IdleWorker]
    /\ job' = [j \in 1..Len(hosts) |-> NewJob(hosts[j])]
    /\ hist' = [j \in 1..Len(hosts) |-> NewHist]
    /\ rpc' = "wait"
    /\ shown' = [j \in 1..Len(hosts) |-> NotShown]
    /\ mainpc' = "send"
    /\ UNCHANGED <<inputs, conf, mainErr, writers, work, workClosed, signalClosed, sent, panicked>>

\* lines 54-142: the setup succeeds, the workers and the renderer are started
SetupOK(identity, signersOK) ==
    /\ ~panicked
    /\ mainpc = "setup"
    /\ Len(hosts) > 0
    /\ agt' = agentFlag
    /\ built' = defaultAuthMethods(IF identity = Empty THEN << >> ELSE <<identity>>,
                                   agentFlag, signersOK, loadable)
    /\ methods' = built'
    /\ wk' = [w \in 1..concurrent |-> IdleWorker]
    /\ job' = [j \in 1..Len(hosts) |-> NewJob(hosts[j])]
    /\ hist' = [j \in 1..Len(hosts) |-> NewHist]
    /\ rpc' = "wait"
    /\ shown' = [j \in 1..Len(hosts) |-> NotShown]
    /\ mainpc' = "send"
    /\ UNCHANGED <<inputs, conf, mainErr, writers, work, workClosed, signalClosed, sent, panicked>>

\* work <- j
Send ==
    /\ ~panicked
    /\ mainpc = "send"
    /\ sent < Len(job)
    /\ Len(work) < WorkCap
    /\ work' = Append(work, sent + 1)
    /\ sent' = sent + 1
    /\ UNCHANGED <<inputs, conf, shown, mainpc, mainErr, setup, methods, writers, workClosed, signalClosed,
                   job, hist, wk, rpc, panicked>>

\* close(work)
CloseWork ==
    /\ ~panicked
    /\ mainpc = "send"
    /\ sent = Len(job)
    /\ workClosed' = TRUE
    /\ mainpc' = "wait"
    /\ UNCHANGED <<inputs, conf, shown, mainErr, setup, methods, writers, work, signalClosed,
                   job, hist, wk, sent, rpc, panicked>>

\* close(signal) without waiting for the workers
WaitWorkersEarly ==
    /\ ~panicked
    /\ mainpc = "wait"
    /\ signalClosed' = TRUE
    /\ mainpc' = "wwait"
    /\ UNCHANGED <<inputs, conf, shown, mainErr, setup, methods, writers, work, workClosed,
                   job, hist, wk, sent, rpc, panicked>>

\* wg.Wait() returns; close(signal)
WaitWorkers ==
    /\ ~panicked
    /\ mainpc = "wait"
    /\ \A w \in Workers : wk[w].pc = "done"
    /\ signalClosed' = TRUE
    /\ mainpc' = "wwait"
    /\ UNCHANGED <<inputs, conf, shown, mainErr, setup, methods, writers, work, workClosed,
                   job, hist, wk, sent, rpc, panicked>>

\* wwg.Wait() returns; multiplexAction returns nil
WaitRenderer ==
    /\ ~panicked
    /\ mainpc = "wwait"
    /\ rpc = "done"
    /\ mainpc' = "returned"
    /\ UNCHANGED <<inputs, conf, shown, mainErr, setup, methods, writers, work, workClosed, signalClosed,
                   job, hist, wk, sent, rpc, panicked>>

----------------------------------------------------------------------------
(* The renderer goroutine                                                  *)

\* i.read(5)
TailCount == 5

\* job.read: the last count lines, all of them when there are fewer
read(lines, count) ==
    LET l == Len(lines)
        from == l - count
    IN  IF from < 0 THEN lines ELSE SubSeq(lines, from + 1, l)

Torn == [kind |-> "torn", data |-> << >>]

\* a worker is inside the append to the job's lines
Appending(j) == \E w \in Workers : wk[w].job = j /\ wk[w].pc = "append"

\* what a render pass prints for job j: the error, or the tail of the lines; a read of
\* i.lines that meets the worker's append has no defined value
Display(j, torn) ==
    IF job[j].err # "nil" THEN [kind |-> "err", data |-> <<job[j].err>>]
    ELSE IF torn /\ Appending(j) THEN Torn
    ELSE [kind |-> "lines", data |-> read(job[j].lines, TailCount)]

\* lines 127-141: one pass over all jobs after a signal was received. The pass takes no lock:
\* where it meets an append it prints an undefined value or the process dies.
Render(outcome) ==
    /\ ~panicked
    /\ rpc = "render"
    /\ outcome # "ok" => \E j \in Jobs : Appending(j) /\ job[j].err = "nil"
    /\ panicked' = (outcome = "crash")
    /\ rpc' = IF outcome = "crash" THEN rpc ELSE "wait"
    /\ shown' = IF outcome = "crash" THEN shown
                ELSE [j \in Jobs |-> Display(j, outcome = "torn")]
    /\ UNCHANGED <<inputs, conf, mainpc, mainErr, setup, methods, writers, work, workClosed,
                   signalClosed, job, hist, wk, sent>>

\* range signal ends when the channel is closed
RendererExit ==
    /\ ~panicked
    /\ rpc = "wait"
    /\ signalClosed
    /\ rpc' = "done"
    /\ UNCHANGED <<inputs, conf, shown, mainpc, mainErr, setup, methods, writers, work, workClosed,
                   signalClosed, job, hist, wk, sent, panicked>>

----------------------------------------------------------------------------
(* sshClientConfig.NewSession                                              *)

\* the step at which an attempt can stop: a failing step, or "ok"
NewSessionSteps(host, options, agtGiven) ==
    LET proxy == options.ProxyCommand # Empty
        \* NewProxyCmdConn splits s.host; ssh.Dial needs an address
        reachable == IF proxy THEN SplitHostPort(host).ok ELSE host # Empty
    IN  (IF proxy THEN {"spawn"} ELSE {"dial"})
        \cup (IF reachable /\ proxy THEN {"handshake"} ELSE {})
        \cup (IF reachable THEN {"session", "ok"} ELSE {})
        \cup (IF reachable /\ agtGiven THEN {"forward", "request"} ELSE {})

\* what NewSession returns when it stops at step: the *sshSession ("nil", "broken" for one
\* whose embedded *ssh.Session is nil, "open"), err # nil, whether it asked for agent
\* forwarding on the connection, and whether it dereferenced a nil session
NewSession(step, agtGiven) ==
    LET connected == step \in {"forward", "session", "request", "ok"}
    IN  [sess  |-> CASE step \in {"spawn", "handshake", "dial", "forward"} -> "nil"
                     [] step = "session" -> "broken"
                     [] OTHER -> "open",
         err   |-> step # "ok",
         conn  |-> connected,
         fwd   |-> connected /\ agtGiven,
         panic |-> step = "session" /\ agtGiven]

----------------------------------------------------------------------------
(* Closing                                                                 *)

\* which Close of a pipe reports an error
PipeErrs == {"nil", "write", "read"}

\* ProxyCmdConn.Close closing the subprocess's stdout first
ProxyCmdConnCloseReadFirst(perr) ==
    [closed |-> IF perr = "read" THEN <<"read">> ELSE <<"read", "write">>,
     err    |-> perr # "nil"]

\* ProxyCmdConn.Close: the pipes it called Close on, in order, and whether it returns an error
ProxyCmdConnClose(perr) ==
    [closed |-> IF perr = "write" THEN <<"write">> ELSE <<"write", "read">>,
     err    |-> perr # "nil"]

\* sshSession.Close closing the connection before the session
sshSessionCloseConnFirst(h, proxy, perr) ==
    [h EXCEPT !.closes = @ + 1,
              !.closed = @ \o <<"conn", "session">>,
              !.pipes = IF proxy THEN ProxyCmdConnClose(perr).closed ELSE << >>]

\* sshSession.Close: s.Session.Close(), then s.conn.Close(), which closes the transport
\* under the connection (the ProxyCmdConn when there is a proxy command)
sshSessionClose(h, proxy, perr) ==
    [h EXCEPT !.closes = @ + 1,
              !.closed = @ \o <<"session", "conn">>,
              !.pipes = IF proxy THEN ProxyCmdConnClose(perr).closed ELSE << >>]

----------------------------------------------------------------------------
(* executeCommand and runSSH                                               *)

Options(j) == getEffectiveClientOptions(job[j].config, cliOptions)

Tried(j) == Range(hist[j].order)

\* the job's sessions go through a proxy command
Proxy(j) == Options(j).ProxyCommand # Empty

\* a receive that leaves the job in the channel for another worker to receive again
RecvPeek(w) ==
    /\ ~panicked
    /\ wk[w].pc = "recv"
    /\ Len(work) > 0
    /\ LET j == Head(work)
           r == cleanHost(job[j].host)
       IN  /\ work' = work
           /\ wk' = [wk EXCEPT ![w] = [IdleWorker EXCEPT !.pc = "runssh", !.job = j]]
           /\ job' = [job EXCEPT ![j].host = r.host,
                                 ![j].err = IF r.err THEN "addr" ELSE @]
           /\ hist' = [hist EXCEPT ![j].taken = @ + 1, ![j].by = @ \cup {w},
                                   ![j].cleans = @ + 1]
    /\ UNCHANGED <<inputs, conf, shown, mainpc, mainErr, setup, methods, writers, workClosed, signalClosed,
                   sent, rpc, panicked>>

\* lines 186-190: for job := range jobs; job.host, err = cleanHost(job.host); a non-nil err
\* is stored in job.err and runSSH is called all the same
Recv(w) ==
    /\ ~panicked
    /\ wk[w].pc = "recv"
    /\ Len(work) > 0
    /\ LET j == Head(work)
           r == cleanHost(job[j].host)
       IN  /\ work' = Tail(work)
           /\ wk' = [wk EXCEPT ![w] = [IdleWorker EXCEPT !.pc = "runssh", !.job = j]]
           /\ job' = [job EXCEPT ![j].host = r.host,
                                 ![j].err = IF r.err THEN "addr" ELSE @]
           /\ hist' = [hist EXCEPT ![j].taken = @ + 1, ![j].by = @ \cup {w},
                                   ![j].cleans = @ + 1]
    /\ UNCHANGED <<inputs, conf, shown, mainpc, mainErr, setup, methods, writers, workClosed, signalClosed,
                   sent, rpc, panicked>>

\* the range loop ends: wg.Done()
WorkerExit(w) ==
    /\ ~panicked
    /\ wk[w].pc = "recv"
    /\ Len(work) = 0
    /\ workClosed
    /\ wk' = [wk EXCEPT ![w].pc = "done"]
    /\ UNCHANGED <<inputs, conf, shown, mainpc, mainErr, setup, methods, writers, work, workClosed,
                   signalClosed, job, hist, sent, rpc, panicked>>

\* lines 200-213: the effective options; the write methods[options.IdentityFile] = m begins.
\* A write that meets another goroutine's write is a fatal error when the runtime sees it.
RunSSH(w, seen) ==
    /\ ~panicked
    /\ wk[w].pc = "runssh"
    /\ LET j == wk[w].job
           options == Options(j)
           adds == options.IdentityFile # Empty /\ options.IdentityFile \in loadable
       IN  /\ job' = [job EXCEPT ![j].host = IF options.HostName # Empty
                                             THEN JoinHostPort(options.HostName, options.Port)
                                             ELSE @]
           /\ hist' = [hist EXCEPT ![j].runs = @ + 1, ![j].empty = ~adds /\ methods = {}]
           /\ seen => adds /\ writers # {}
           /\ panicked' = seen
           /\ IF adds
              THEN /\ writers' = writers \cup {w}
                   /\ wk' = [wk EXCEPT ![w].pc = "mapwrite"]
              ELSE /\ writers' = writers
                   /\ wk' = [wk EXCEPT ![w].pc = "loop", ![w].snap = methods]
    /\ UNCHANGED <<inputs, conf, shown, mainpc, mainErr, setup, methods, work, workClosed,
                   signalClosed, sent, rpc>>

\* the write to the shared map ends
MapWrite(w) ==
    /\ ~panicked
    /\ wk[w].pc = "mapwrite"
    /\ methods' = methods \cup {Options(wk[w].job).IdentityFile}
    /\ writers' = writers \ {w}
    /\ wk' = [wk EXCEPT ![w].pc = "loop", ![w].snap = methods']
    /\ UNCHANGED <<inputs, conf, shown, mainpc, mainErr, setup, work, workClosed, signalClosed,
                   job, hist, sent, rpc, panicked>>

\* runSSH returns err: executeCommand stores a non-nil err in job.err and takes the next job
Return(w, err) ==
    /\ job' = [job EXCEPT ![wk[w].job].err = IF err # "nil" THEN err ELSE @]
    /\ wk' = [wk EXCEPT ![w] = IdleWorker]

\* the loop without its break: a nil err does not end it while a method is left
AttemptNoBreak(w, k, step, seen, perr) ==
    /\ ~panicked
    /\ wk[w].pc = "loop"
    /\ LET j == wk[w].job
           r == NewSession(step, agt)
       IN  /\ wk[w].snap # {}
           /\ k \in methods \ Tried(j)
           /\ step \in NewSessionSteps(job[j].host, Options(j), agt)
           /\ seen => writers # {}
           /\ perr # "nil" => step = "handshake"
           /\ panicked' = (seen \/ r.panic)
           /\ hist' = [hist EXCEPT ![j].order = Append(@, k),
                                   ![j].conn = @ \/ r.conn,
                                   ![j].opened = IF r.conn THEN @ + 1 ELSE @,
                                   ![j].fwd = @ \/ r.fwd,
                                   ![j].won = IF r.err THEN @ ELSE k,
                                   ![j].pipes = IF step = "handshake"
                                                THEN ProxyCmdConnClose(perr).closed
                                                ELSE << >>]
           /\ wk' = [wk EXCEPT ![w].sess = r.sess,
                               ![w].err = r.err,
                               ![w].pc = IF r.err \/ methods \ (Tried(j) \cup {k}) # {}
                                         THEN "loop" ELSE "setenv"]
    /\ UNCHANGED <<inputs, conf, shown, mainpc, mainErr, setup, methods, writers, work, workClosed,
                   signalClosed, job, sent, rpc>>

\* lines 221-230: one turn of the loop over the methods map, in the order the map gives; a
\* nil err breaks out of it (lines 232-243 then keep the session).
\* An iteration that meets another goroutine's write is a fatal error when the runtime sees it.
Attempt(w, k, step, seen, perr) ==
    /\ ~panicked
    /\ wk[w].pc = "loop"
    /\ LET j == wk[w].job
           r == NewSession(step, agt)
       IN  /\ wk[w].snap # {}
           /\ k \in methods \ Tried(j)
           /\ step \in NewSessionSteps(job[j].host, Options(j), agt)
           /\ seen => writers # {}
           /\ perr # "nil" => step = "handshake"
           /\ panicked' = (seen \/ r.panic)
           /\ hist' = [hist EXCEPT ![j].order = Append(@, k),
                                   ![j].conn = @ \/ r.conn,
                                   ![j].opened = IF r.conn THEN @ + 1 ELSE @,
                                   ![j].fwd = @ \/ r.fwd,
                                   ![j].won = IF r.err THEN @ ELSE k,
                                   ![j].pipes = IF step = "handshake"
                                                THEN ProxyCmdConnClose(perr).closed
                                                ELSE << >>]
           /\ wk' = [wk EXCEPT ![w].sess = r.sess,
                               ![w].err = r.err,
                               ![w].snap = IF r.err THEN @ ELSE {},
                               ![w].pc = IF r.err THEN "loop" ELSE "setenv"]
    /\ UNCHANGED <<inputs, conf, shown, mainpc, mainErr, setup, methods, writers, work, workClosed,
                   signalClosed, job, sent, rpc>>

\* lines 230-239: the loop ends with no method left (at once over an empty map; an entry
\* added while it ran may be skipped); session == nil is the only failure runSSH sees; with output shown, the writer
\* is stored through the embedded *ssh.Session
LoopExit(w) ==
    /\ ~panicked
    /\ wk[w].pc = "loop"
    /\ (methods \ Tried(wk[w].job)) \cap wk[w].snap = {}
    /\ LET j == wk[w].job
       IN  IF wk[w].sess = "nil"
           THEN /\ Return(w, "none")
                /\ hist' = [hist EXCEPT ![j].done = @ + 1]
                /\ panicked' = FALSE
           ELSE /\ wk' = [wk EXCEPT ![w].pc = "setenv", ![w].snap = {}]
                /\ panicked' = (~quiet /\ wk[w].sess = "broken")
                /\ UNCHANGED <<job, hist>>
    /\ UNCHANGED <<inputs, conf, shown, mainpc, mainErr, setup, methods, writers, work, workClosed,
                   signalClosed, sent, rpc>>

\* Setenv whose error is dropped: the loop goes on to the next variable
SetenvIgnoreFailure(w, ok, perr) ==
    /\ ~panicked
    /\ wk[w].pc = "setenv"
    /\ wk[w].env < envN
    /\ perr # "nil" => ~ok /\ Proxy(wk[w].job) /\ wk[w].sess # "broken"
    /\ LET j == wk[w].job
       IN  IF wk[w].sess = "broken"
           THEN /\ panicked' = TRUE
                /\ UNCHANGED <<job, hist, wk>>
           ELSE /\ panicked' = FALSE
                /\ hist' = [hist EXCEPT ![j].setenvs = @ + 1, ![j].envfail = @ \/ ~ok]
                /\ wk' = [wk EXCEPT ![w].env = @ + 1]
                /\ job' = job
    /\ UNCHANGED <<inputs, conf, shown, mainpc, mainErr, setup, methods, writers, work, workClosed,
                   signalClosed, sent, rpc>>

\* lines 245-249: session.Setenv for the next variable of c.Env; a failure returns through
\* the deferred session.Close()
Setenv(w, ok, perr) ==
    /\ ~panicked
    /\ wk[w].pc = "setenv"
    /\ wk[w].env < envN
    /\ perr # "nil" => ~ok /\ Proxy(wk[w].job) /\ wk[w].sess # "broken"
    /\ LET j == wk[w].job
       IN  IF wk[w].sess = "broken"
           THEN /\ panicked' = TRUE
                /\ UNCHANGED <<job, hist, wk>>
           ELSE /\ panicked' = FALSE
                /\ IF ok
                   THEN /\ hist' = [hist EXCEPT ![j].setenvs = @ + 1]
                        /\ wk' = [wk EXCEPT ![w].env = @ + 1]
                        /\ job' = job
                   ELSE /\ hist' = [hist EXCEPT
                                      ![j] = sshSessionClose([@ EXCEPT !.setenvs = @ + 1,
                                                                       !.envfail = TRUE,
                                                                       !.done = @ + 1],
                                                             Proxy(j), perr)]
                        /\ Return(w, "setenv")
    /\ UNCHANGED <<inputs, conf, shown, mainpc, mainErr, setup, methods, writers, work, workClosed,
                   signalClosed, sent, rpc>>

\* line 250: session.Run(c.Cmd) starts the command
RunStart(w) ==
    /\ ~panicked
    /\ wk[w].pc = "setenv"
    /\ wk[w].env = envN
    /\ LET j == wk[w].job
       IN  IF wk[w].sess = "broken"
           THEN /\ panicked' = TRUE
                /\ UNCHANGED <<hist, wk>>
           ELSE /\ panicked' = FALSE
                /\ hist' = [hist EXCEPT ![j].cmds = @ + 1]
                /\ wk' = [wk EXCEPT ![w].pc = "run"]
    /\ UNCHANGED <<inputs, conf, shown, mainpc, mainErr, setup, methods, writers, work, workClosed,
                   signalClosed, job, sent, rpc>>

\* writer.Write is called with output of the command: the append of its next line begins
Write(w) ==
    /\ ~panicked
    /\ wk[w].pc = "run"
    /\ ~quiet
    /\ wk[w].out < MaxLines
    /\ wk' = [wk EXCEPT ![w].pc = "append"]
    /\ UNCHANGED <<inputs, conf, shown, mainpc, mainErr, setup, methods, writers, work, workClosed,
                   signalClosed, job, hist, sent, rpc, panicked>>

\* writer.Write: the line is appended to job.lines
WriteLine(w) ==
    /\ ~panicked
    /\ wk[w].pc = "append"
    /\ job' = [job EXCEPT ![wk[w].job].lines = Append(@, wk[w].out + 1)]
    /\ wk' = [wk EXCEPT ![w].pc = "signal", ![w].out = @ + 1]
    /\ UNCHANGED <<inputs, conf, shown, mainpc, mainErr, setup, methods, writers, work, workClosed,
                   signalClosed, hist, sent, rpc, panicked>>

\* writer.Write: w.j.signal <- struct{}{} on the unbuffered channel meets the renderer's receive
Signal(w) ==
    /\ ~panicked
    /\ wk[w].pc = "signal"
    /\ rpc = "wait"
    /\ ~signalClosed
    /\ rpc' = "render"
    /\ wk' = [wk EXCEPT ![w].pc = "run"]
    /\ hist' = [hist EXCEPT ![wk[w].job].sig = @ + 1]
    /\ UNCHANGED <<inputs, conf, shown, mainpc, mainErr, setup, methods, writers, work, workClosed,
                   signalClosed, job, sent, panicked>>

\* session.Run whose non-zero exit makes runSSH run the command again
RunReturnRetry(w, exitOK, perr) ==
    /\ ~panicked
    /\ wk[w].pc = "run"
    /\ perr # "nil" => Proxy(wk[w].job)
    /\ LET j == wk[w].job
       IN  IF exitOK
           THEN /\ hist' = [hist EXCEPT ![j] = sshSessionClose([@ EXCEPT !.done = @ + 1],
                                                               Proxy(j), perr)]
                /\ Return(w, "nil")
           ELSE /\ perr = "nil"
                /\ wk' = [wk EXCEPT ![w].pc = "setenv"]
                /\ UNCHANGED <<job, hist>>
    /\ UNCHANGED <<inputs, conf, shown, mainpc, mainErr, setup, methods, writers, work, workClosed,
                   signalClosed, sent, rpc, panicked>>

\* session.Run returns (nil, or an error for a non-zero exit); the deferred session.Close()
RunReturn(w, exitOK, perr) ==
    /\ ~panicked
    /\ wk[w].pc = "run"
    /\ perr # "nil" => Proxy(wk[w].job)
    /\ LET j == wk[w].job
       IN  hist' = [hist EXCEPT ![j] = sshSessionClose([@ EXCEPT !.done = @ + 1],
                                                      Proxy(j), perr)]
    /\ Return(w, IF exitOK THEN "nil" ELSE "exit")
    /\ UNCHANGED <<inputs, conf, shown, mainpc, mainErr, setup, methods, writers, work, workClosed,
                   signalClosed, sent, rpc, panicked>>

----------------------------------------------------------------------------

Steps == {"spawn", "handshake", "dial", "forward", "session", "request", "ok"}

Next ==
    \/ \E reason \in {"no command", "hosts file", "config file", "no host", "agent"} :
          SetupFail(reason)
    \/ \E identity \in {Empty, CliIdentity}, signersOK \in BOOLEAN : SetupOK(identity, signersOK)
    \/ Send
    \/ CloseWork
    \/ WaitWorkers
    \/ WaitRenderer
    \/ \E outcome \in {"ok", "torn", "crash"} : Render(outcome)
    \/ RendererExit
    \/ \E w \in Workers : Recv(w)
    \/ \E w \in Workers : WorkerExit(w)
    \/ \E w \in Workers, seen \in BOOLEAN : RunSSH(w, seen)
    \/ \E w \in Workers : MapWrite(w)
    \/ \E w \in Workers, k \in methods, step \in Steps, seen \in BOOLEAN, perr \in PipeErrs :
          Attempt(w, k, step, seen, perr)
    \/ \E w \in Workers : LoopExit(w)
    \/ \E w \in Workers, ok \in BOOLEAN, perr \in PipeErrs : Setenv(w, ok, perr)
    \/ \E w \in Workers : RunStart(w)
    \/ \E w \in Workers : Write(w)
    \/ \E w \in Workers : WriteLine(w)
    \/ \E w \in Workers : Signal(w)
    \/ \E w \in Workers, exitOK \in BOOLEAN, perr \in PipeErrs : RunReturn(w, exitOK, perr)

\* at most one host and one worker, every combination of the options
Init ==
    /\ hosts \in {h \in HostLists : Len(h) <= 1}
    /\ concurrent \in 0..1
    /\ agentFlag \in BOOLEAN
    /\ quiet \in BOOLEAN
    /\ envN \in 0..MaxEnv
    /\ cliOptions \in CliChoices
    /\ sections \in SectionChoices
    /\ loadable \in LoadableChoices
    /\ Start
    /\ ConfRead

Spec == Init /\ [][Next]_vars

\* the worker pool: every host list and concurrency, output shown, no agent, no proxy command
InitPool ==
    /\ hosts \in HostLists
    /\ concurrent \in 0..MaxConcurrent
    /\ agentFlag = FALSE
    /\ quiet = FALSE
    /\ envN = MaxEnv
    /\ cliOptions = DefaultOptions
    /\ sections \in SectionChoices
    /\ loadable \in LoadableChoices
    /\ Start
    /\ ConfRead

SpecPool == InitPool /\ [][Next]_vars

\* one host more than the work channel holds
QueueHosts == WorkCap + 1

\* the runs of Init, and the runs of up to QueueHosts hosts with --concurrency 0
InitQueue ==
    \/ Init
    \/ /\ hosts \in {[i \in 1..n |-> HostA] : n \in 0..QueueHosts}
       /\ concurrent = 0
       /\ agentFlag = FALSE
       /\ quiet \in BOOLEAN
       /\ envN = 0
       /\ cliOptions = DefaultOptions
       /\ sections \in SectionChoices
       /\ loadable = {KeyA}
       /\ Start
       /\ ConfRead

\* a goroutine that can take a step is scheduled in the end
SpecQueue == InitQueue /\ [][Next]_vars /\ WF_vars(Next)

----------------------------------------------------------------------------
(* The reading of the configuration, and what is made of it for the first  *)
(* host                                                                    *)

\* the state of a run of the commands: it is not begun here
run == <<mainpc, mainErr, agt, built, methods, writers, work, workClosed, signalClosed,
         job, hist, wk, sent, rpc, shown>>

\* multiplexAction: sections, err := ParseSSHConfigFile(...)
ParseFile ==
    /\ cpc = "file"
    /\ LET r == ParseSSHConfigFile([exists |-> configFile.exists,
                                    content |-> Content(configFile)])
       IN  /\ sections' = IF r.panic THEN sections ELSE r.sections
           /\ panicked' = r.panic
           /\ cpc' = IF r.panic THEN "crashed" ELSE "options"
    /\ UNCHANGED <<hosts, concurrent, agentFlag, quiet, envN, cliOptions, loadable, run,
                   configFile, plainOpts, effective, cleaned, dialled>>

\* multiplexAction: cliOptions := ParseOptions(plainOptions)
ParseCli ==
    /\ cpc = "options"
    /\ LET r == ParseOptions(Texts(plainOpts))
       IN  /\ cliOptions' = IF r.panic THEN cliOptions ELSE r.options
           /\ panicked' = r.panic
           /\ cpc' = IF r.panic THEN "crashed" ELSE "clean"
    /\ UNCHANGED <<hosts, concurrent, agentFlag, quiet, envN, sections, loadable, run,
                   configFile, plainOpts, effective, cleaned, dialled>>

\* executeCommand: job.host, err = cleanHost(job.host)
CleanHost ==
    /\ cpc = "clean"
    /\ hosts # << >>
    /\ cleaned' = <<cleanHost(hosts[1])>>
    /\ cpc' = "run"
    /\ UNCHANGED <<inputs, run, panicked, configFile, plainOpts, effective, dialled>>

\* runSSH: options := getEffectiveClientOptions(job.config, cliOptions), where job.config
\* is sections[host] for the host as given; a HostName in them replaces job.host by
\* net.JoinHostPort(options.HostName, options.Port)
Resolve ==
    /\ cpc = "run"
    /\ ~cleaned[1].err
    /\ effective' = getEffectiveClientOptions(SectionOf(sections, hosts[1]), cliOptions)
    /\ dialled' = IF effective'.HostName # Empty
                  THEN JoinHostPort(effective'.HostName, effective'.Port)
                  ELSE cleaned[1].host
    /\ cpc' = "again"
    /\ UNCHANGED <<inputs, run, panicked, configFile, plainOpts, cleaned>>

\* cleanHost, called on what it returned
CleanAgain ==
    /\ cpc = "again"
    /\ cleaned' = Append(cleaned, cleanHost(cleaned[1].host))
    /\ cpc' = "done"
    /\ UNCHANGED <<inputs, run, panicked, configFile, plainOpts, effective, dialled>>

NextConf ==
    \/ ParseFile
    \/ ParseCli
    \/ CleanHost
    \/ Resolve
    \/ CleanAgain

\* -o "HostName h"
HostNameOpt ==
    Line("option", "HostName", Empty, <<"H", "o", "s", "t", "N", "a", "m", "e">>, <<Space>>,
         <<"h">>)

\* every config file with no -o entry, one config file with every list of -o entries,
\* every host string with neither, and a HostName given with -o, alone or after a port,
\* for a host with and without a port
InitConf ==
    /\ \/ /\ configFile \in ConfigFiles
          /\ plainOpts = << >>
          /\ hosts \in {<<HostA>>, <<HostB>>}
       \/ /\ configFile = MissingFile
          /\ plainOpts \in {<<HostNameOpt>>} \cup {<<e, HostNameOpt>> : e \in PlainEntries}
          /\ hosts \in {<<HostA>>, <<HostB>>}
       \/ /\ configFile \in {MissingFile, PortFile}
          /\ plainOpts \in PlainLists
          /\ hosts = <<HostA>>
       \/ /\ configFile = MissingFile
          /\ plainOpts = << >>
          /\ hosts \in {<<h>> : h \in HostStrings}
    /\ concurrent = 1
    /\ agentFlag = FALSE
    /\ quiet = FALSE
    /\ envN = 0
    /\ cliOptions = ZeroOptions
    /\ sections = NoSections
    /\ loadable = {}
    /\ Start
    /\ cpc = "file"
    /\ effective = ZeroOptions
    /\ cleaned = << >>
    /\ dialled = Empty

SpecConf == InitConf /\ [][NextConf]_vars

----------------------------------------------------------------------------
(* Properties                                                              *)

\* multiplexAction returned nil
Returned == mainpc = "returned" /\ mainErr = "nil"

\* number of runSSH calls for job j that have not returned
Inside(j) == hist[j].runs - hist[j].done

RECURSIVE SumInside(_)
SumInside(n) == IF n = 0 THEN 0 ELSE Inside(n) + SumInside(n - 1)

Last(s) == s[Len(s)]

\* the worker is past the loop of runSSH, working with the session it kept
Running(w) == wk[w].pc \in {"setenv", "run", "append", "signal"}

\* C1: when multiplexAction returns, every job was received from the work channel exactly
\* once, by exactly one worker, and cleanHost and runSSH ran exactly once for it, for every
\* host list and every concurrency limit.
C1_DrainedOnReturn ==
    Returned =>
        \A j \in Jobs : /\ hist[j].taken = 1
                        /\ Cardinality(hist[j].by) = 1
                        /\ hist[j].cleans = 1
                        /\ hist[j].runs = 1
                        /\ hist[j].done = 1

\* C2: with N hosts and a concurrency limit k, 1 <= k < N, never more than k jobs are inside
\* runSSH, and when multiplexAction returns exactly N jobs have completed, one per host.
C2_BoundedPool ==
    (concurrent >= 1 /\ concurrent < Len(hosts) /\ mainpc # "setup") =>
        /\ SumInside(Len(job)) <= concurrent
        /\ \A j \in Jobs : hist[j].runs <= 1 /\ hist[j].done <= hist[j].runs
        /\ Returned => /\ Len(job) = Len(hosts)
                       /\ \A j \in Jobs : hist[j].done = 1

\* multiplexAction returned after N = 2 hosts went through a pool of k = 1 worker, one
\* of them with an error in its job
C2_Witness ==
    /\ concurrent >= 1
    /\ concurrent < Len(hosts)
    /\ Returned
    /\ Len(job) = Len(hosts)
    /\ \A j \in Jobs : hist[j].done = 1
    /\ \E j \in Jobs : job[j].err # "nil"

\* C3: a per-host failure is recorded in that host's job.err only: it never crashes the
\* process.
C3_NoCrash == ~panicked

\* C4: when the NewSession attempt of every authentication method failed for a host, neither
\* Setenv nor Run is called for it and runSSH returns the 'none of the provided
\* authentication methods' error, which ends in job.err.
C4_AllFailedNoRun ==
    \A j \in Jobs :
        hist[j].won = Empty =>
            /\ hist[j].setenvs = 0
            /\ hist[j].cmds = 0
            /\ hist[j].done = 1 => job[j].err = "none"

\* C5: once a NewSession attempt returned without error, no further method is attempted for
\* the job (the winning attempt stays the last one) and the session runner works on that
\* session: the command is run on it once, unless a Setenv before it failed.
C5_FirstSuccessWins ==
    \A j \in Jobs :
        hist[j].won # Empty =>
            /\ Len(hist[j].order) >= 1
            /\ Last(hist[j].order) = hist[j].won
            /\ \A i \in 1..(Len(hist[j].order) - 1) : hist[j].order[i] # hist[j].won
            /\ \A w \in Workers :
                  wk[w].job = j => Running(w) /\ wk[w].sess = "open" /\ ~wk[w].err
            /\ hist[j].done = 1 => (hist[j].cmds = 1 \/ hist[j].envfail)
            /\ hist[j].cmds <= 1

\* the second attempt of a job succeeded, a method was left untried, the command was run
C5_Witness ==
    \E j \in Jobs :
        /\ hist[j].won # Empty
        /\ Len(hist[j].order) = 2
        /\ methods \ Tried(j) # {}
        /\ hist[j].cmds = 1
        /\ hist[j].done = 1

\* the place of a key in the order of insertion into the methods map: the agent,
\* then the identity files of defaultAuthMethods, then a host's IdentityFile
InsertRank(k) ==
    IF k = AgentKey THEN 0
    ELSE IF k \in Range(DefaultIdentityFiles) \cup {CliIdentity} THEN 1
    ELSE 2

\* C6: with an agent handle, the agent method is attempted before any identity-file method,
\* and the methods are attempted in the order of their insertion into the map.
C6_InsertionOrder ==
    \A j \in Jobs :
        /\ (AgentKey \in built /\ Len(hist[j].order) >= 1) => hist[j].order[1] = AgentKey
        /\ \A i1, i2 \in 1..Len(hist[j].order) :
              i1 < i2 => InsertRank(hist[j].order[i1]) <= InsertRank(hist[j].order[i2])

\* C7 as stated: when the map defaultAuthMethods built is empty, no NewSession attempt (no
\* dial, no proxy command) is made for any job and every job ends with the 'none' error.
C7_EmptyBuiltNoDial ==
    \A j \in Jobs :
        built = {} =>
            /\ hist[j].order = << >>
            /\ hist[j].done = 1 => job[j].err = "none"

\* C7 amended: defaultAuthMethods keeps only what could be loaded, and a job whose loop
\* starts on an empty methods map makes no NewSession attempt and ends with the 'none' error.
C7_EmptyMapNoDial ==
    /\ built \subseteq loadable \cup {AgentKey}
    /\ AgentKey \in built => agt
    /\ \A j \in Jobs :
          hist[j].empty =>
              /\ hist[j].order = << >>
              /\ ~hist[j].conn
              /\ hist[j].setenvs = 0 /\ hist[j].cmds = 0
              /\ hist[j].done = 1 => job[j].err = "none"

\* an identity file was skipped, the map was built empty, and a job found it empty and
\* ended with the 'none' error
C7_Witness ==
    /\ built = {}
    /\ \E j \in Jobs : hist[j].empty /\ hist[j].done = 1 /\ job[j].err = "none"

\* C8: an attempt whose NewSession failed at any step is a failed attempt: the process does
\* not die in it, and the job is in the loop to move on to the next method or has ended
\* with an error; it never goes on to Setenv and Run with it.
C8_FailedAttemptFails ==
    /\ ~panicked
    /\ \A w \in Workers : wk[w].err => wk[w].pc = "loop"

\* C9: agent forwarding is asked for on a host's connection exactly when the host's effective
\* options have ForwardAgent = yes.
C9_ForwardIffOption ==
    \A j \in Jobs :
        hist[j].conn => (hist[j].fwd <=> Options(j).ForwardAgent = Yes)

\* C10: when session.Setenv fails, runSSH returns that error (it ends in job.err), Run is
\* not called for the host, and the session is closed once.
C10_SetenvFailure ==
    \A j \in Jobs :
        hist[j].envfail =>
            /\ hist[j].done = 1
            /\ job[j].err = "setenv"
            /\ hist[j].cmds = 0
            /\ hist[j].closes = 1

\* a Setenv failed on an established session
C10_Witness ==
    \E j \in Jobs : hist[j].envfail /\ hist[j].won # Empty /\ hist[j].setenvs = envN

\* C11: for a job whose session was established, the session is not closed before runSSH
\* returns and is closed exactly once when it has returned (after the command succeeded,
\* after a non-zero exit, after a failed Setenv), and sshSession.Close closed the session
\* first and the connection second.
C11_ClosedOnce ==
    \A j \in Jobs :
        hist[j].won # Empty =>
            /\ hist[j].done = 0 => hist[j].closes = 0 /\ hist[j].closed = << >>
            /\ hist[j].done = 1 => /\ hist[j].closes = 1
                                   /\ hist[j].closed = <<"session", "conn">>

\* runSSH returned after a non-zero exit of the command, the session closed
C11_Witness ==
    \E j \in Jobs : /\ hist[j].won # Empty
                     /\ hist[j].done = 1
                     /\ job[j].err = "exit"
                     /\ hist[j].closed = <<"session", "conn">>

\* C12: ProxyCmdConn.Close never closes the read side (the subprocess's stdout) before the
\* write side (its stdin): a close of the read side always comes after one of the write side.
C12_WriteSideFirst ==
    \A j \in Jobs :
        \A i \in 1..Len(hist[j].pipes) :
            hist[j].pipes[i] = "read" => \E i0 \in 1..(i - 1) : hist[j].pipes[i0] = "write"

\* the transport of a proxy command was closed at the end of a job, both pipes in turn
C12_Witness ==
    \E j \in Jobs : /\ Proxy(j)
                     /\ hist[j].done = 1
                     /\ hist[j].closes = 1
                     /\ hist[j].pipes = <<"write", "read">>

\* C13: once ProxyCmdConn.Close has returned, both pipes of the transport have been closed,
\* each once, also when closing the write side reported an error.
C13_BothPipesClosed ==
    \A j \in Jobs :
        hist[j].pipes # << >> => hist[j].pipes = <<"write", "read">>

\* C14: the renderer has received a signal for every line a worker appended to a job and
\* one for the error a worker stored in job.err (each signal starts a render pass over all
\* jobs): when a worker is through with a job, the signals received for the job are at
\* least its lines plus one if its err is set.
C14_SignalPerChange ==
    \A j \in Jobs :
        hist[j].done = 1 =>
            hist[j].sig >= Len(job[j].lines) + (IF job[j].err # "nil" THEN 1 ELSE 0)

Min(a, b) == IF a < b THEN a ELSE b

\* data is the last min(5, n) of the first n lines, in their order
IsTail(data, lines, n) ==
    /\ Len(data) = Min(5, n)
    /\ \A i \in 1..Len(data) : data[i] = lines[n - Len(data) + i]

\* C15: the lines of a job stay as appended (the i-th line appended stays the i-th), and
\* what a render pass printed for a job without error is the last min(5, n) lines of the
\* n lines the job had at some moment, in the order appended.
C15_TailShown ==
    \A j \in Jobs :
        /\ \A i \in 1..Len(job[j].lines) : job[j].lines[i] = i
        /\ shown[j].kind \in {"none", "err", "lines"}
        /\ shown[j].kind = "lines" =>
              \E n \in 0..Len(job[j].lines) : IsTail(shown[j].data, job[j].lines, n)

\* C16: the renderer is never inside a render pass (reading every job's lines and err)
\* while a worker is inside an append to a job's lines.
C16_Serialized ==
    ~(rpc = "render" /\ \E j \in Jobs : Appending(j))

\* C17: a worker that has appended a line and is to send the signal can always go on: the
\* send never has to wait for the renderer to finish a render pass.
C17_NeverBlocked ==
    \A w \in Workers : wk[w].pc = "signal" => rpc = "wait"

\* C18: the signal channel is closed only when every worker has left its loop, the renderer
\* ends only after that, and multiplexAction returns nil only when every worker and then
\* the renderer, its last render pass made, have finished.
C18_Barrier ==
    /\ signalClosed => \A w \in Workers : wk[w].pc = "done"
    /\ rpc = "done" => signalClosed
    /\ Returned => /\ \A w \in Workers : wk[w].pc = "done"
                   /\ signalClosed
                   /\ rpc = "done"

\* multiplexAction returned after two workers ran and a render pass printed a job's line
C18_Witness ==
    /\ Returned
    /\ Len(wk) = 2
    /\ \A j \in Jobs : hist[j].done = 1
    /\ \E j \in Jobs : shown[j].kind = "lines" /\ shown[j].data # << >>

\* C19: a setup error (no command, hosts file, no host, agent not reachable) is returned
\* before any worker is started, any job made and any host dialled; without a host no
\* worker is ever started.
C19_SetupErrorFirst ==
    /\ mainErr # "nil" => /\ mainpc = "returned"
                          /\ wk = << >>
                          /\ job = << >>
                          /\ hist = << >>
                          /\ methods = {}
    /\ Len(hosts) = 0 => wk = << >>

\* -A was given with hosts and workers to start, and the agent could not be reached
C19_Witness ==
    /\ mainpc = "returned"
    /\ mainErr = "agent"
    /\ Len(hosts) >= 1
    /\ concurrent >= 1

\* C20: for each job no authentication method is attempted twice, runSSH is entered once
\* and the command is run at most once.
C20_NoRetry ==
    \A j \in Jobs :
        /\ \A i1, i2 \in 1..Len(hist[j].order) :
              i1 # i2 => hist[j].order[i1] # hist[j].order[i2]
        /\ hist[j].runs <= 1
        /\ hist[j].cmds <= 1

\* a job ended by a non-zero exit of its command, run once, after a first method failed
C20_Witness ==
    \E j \in Jobs : /\ hist[j].done = 1
                     /\ job[j].err = "exit"
                     /\ Len(hist[j].order) = 2
                     /\ hist[j].cmds = 1

----------------------------------------------------------------------------
(* The configuration: what was written and what was made of it             *)

\* the last of the lines from..to of ls whose keyword names field f, 0 when there is none
LastNaming(ls, from, to, f) ==
    LET ks == {k \in from..to : ls[k].field = f}
    IN  IF ks = {} THEN 0 ELSE CHOOSE k \in ks : \A x \in ks : x <= k

\* the config file has been parsed, the -o entries have been parsed, the first host's
\* options have been computed, cleanHost has returned
FileParsed == cpc \notin {"file", "crashed"}
CliParsed == cpc \notin {"file", "options", "crashed"}
Resolved == cpc \in {"again", "done"}
Cleaned == cpc \in {"run", "again", "done"}

\* the indexes of the Host lines of ls, and the tokens they name
HostLines(ls) == {k \in 1..Len(ls) : ls[k].kind = "host"}
HostTokens(ls) == {ls[k].val : k \in HostLines(ls)}

\* the last line of the section that the Host line at i opens
SectionEnd(ls, i) ==
    LET hs == {k \in HostLines(ls) : k > i}
    IN  IF hs = {} THEN Len(ls) ELSE (CHOOSE k \in hs : \A x \in hs : k <= x) - 1

\* what the lines from..to say: each field has the argument of the last line that names
\* it, and the value ParseOptions starts from when no line names it
Written(ls, from, to) ==
    [f \in OptionFields |->
        LET k == LastNaming(ls, from, to, f)
        IN  IF k = 0 THEN DefaultOptions[f] ELSE ls[k].val]

\* the Host line of token t
Opening(ls, t) == CHOOSE k \in HostLines(ls) : ls[k].val = t

\* no two Host lines name the same token
DistinctTokens(ls) == \A i, k \in HostLines(ls) : ls[i].val = ls[k].val => i = k

\* every line is a Host line or the line of an option other than HostName
PlainSections(ls) ==
    \A k \in 1..Len(ls) : ls[k].kind \in {"host", "option"} /\ ls[k].field # "HostName"

\* C21: for every option field the value given on the command line overrides the value of
\* the host's config-file section, which overrides the default (Port 22); a field that was
\* not given on the command line takes the section's value when the section has one.
C21_Precedence ==
    Resolved =>
        \A f \in OptionFields \ {"Host"} :
            LET k == LastNaming(plainOpts, 1, Len(plainOpts), f)
                sec == SectionOf(sections, hosts[1])
            IN  effective[f] = IF k # 0 THEN plainOpts[k].val
                               ELSE IF sec[f] # Empty THEN sec[f]
                               ELSE DefaultOptions[f]

C23_ForwardScan ==
    (FileParsed /\ configFile.exists /\ configFile.newline
                /\ PlainSections(configFile.lines) /\ DistinctTokens(configFile.lines)) =>
        LET ls == configFile.lines
        IN  /\ DOMAIN sections = HostTokens(ls)
            /\ \A t \in HostTokens(ls), f \in OptionFields \ {"Host"} :
                  sections[t][f] = Written(ls, Opening(ls, t), SectionEnd(ls, Opening(ls, t)))[f]

\* the file is one section: a Host line, then option lines, then the final newline
OneSectionFile(file) ==
    /\ file.exists
    /\ file.newline
    /\ file.lines # << >>
    /\ file.lines[1].kind = "host"
    /\ \A k \in 2..Len(file.lines) : file.lines[k].kind = "option"

\* C24: only a Host line opens a section: a file with one Host line h followed by option
\* lines gives exactly one entry, keyed h, whose fields hold the arguments of those lines;
\* a HostName line opens no section.
C24_HostLineOnly ==
    (FileParsed /\ OneSectionFile(configFile)) =>
        LET ls == configFile.lines
        IN  /\ DOMAIN sections = {ls[1].val}
            /\ sections[ls[1].val] = Written(ls, 1, Len(ls))

\* C25: a Host line with no line of its own after it, also one that another Host line
\* follows at once, gives an entry keyed by its token with Host set to the token, Port 22
\* and every other field empty.
C25_EmptySection ==
    (FileParsed /\ configFile.exists /\ configFile.newline
                /\ PlainSections(configFile.lines) /\ DistinctTokens(configFile.lines)) =>
        LET ls == configFile.lines
        IN  \A i \in HostLines(ls) :
                SectionEnd(ls, i) = i =>
                    /\ ls[i].val \in DOMAIN sections
                    /\ sections[ls[i].val] =
                           [ZeroOptions EXCEPT !.Host = ls[i].val, !.Port = Port22]

\* the file has nothing but comments, or nothing at all
CommentsOnly(file) ==
    /\ file.exists
    /\ \A k \in 1..Len(file.lines) : file.lines[k].kind = "comment"
    /\ file.lines = << >> => ~file.newline

\* C26: a config file that is missing, empty or made of comments only gives the empty
\* mapping and no error (no -o entry is given, so that nothing else can fail).
C26_EmptyMapping ==
    (cpc # "file" /\ plainOpts = << >> /\ (~configFile.exists \/ CommentsOnly(configFile))) =>
        /\ sections = NoSections
        /\ ~panicked

\* a file of comment lines has been parsed
C26_Witness ==
    /\ cpc = "options"
    /\ CommentsOnly(configFile)
    /\ Len(configFile.lines) = MaxConfigLines

\* the entries written with a single space between keyword and argument
Canonical(ls) ==
    [k \in 1..Len(ls) |-> IF ls[k].kind = "option" THEN [ls[k] EXCEPT !.sep = <<Space>>]
                          ELSE ls[k]]

\* C27: ParseOptions gives the same result whether an entry is written 'key value',
\* 'key=value', 'key = value' or with a tab between key and value.
C27_SameResult ==
    CliParsed => cliOptions = ParseOptions(Texts(Canonical(plainOpts))).options

\* two entries, one written with = and one with a tab, have been parsed
C27_Witness ==
    /\ CliParsed
    /\ Len(plainOpts) = 2
    /\ plainOpts[1].sep = <<Equals>>
    /\ plainOpts[2].sep = <<Tab>>
    /\ plainOpts[1].field # plainOpts[2].field
    /\ cliOptions.Port = Port22
    /\ cliOptions.User = <<"y">>

\* an entry or a line of a section is empty or has one character
Malformed(ls) == \E k \in 1..Len(ls) : ls[k].kind \in {"blank", "malformed"}

\* C28: an empty or one-character entry, on the command line or as a line of a
\* config-file section, never ends the process with a panic.
C28_MalformedSkipped ==
    (Malformed(plainOpts) \/ Malformed(configFile.lines)) => ~panicked

\* C29: ParseOptions matches the keywords whatever their case and changes only the field
\* an entry names; an entry whose keyword names no field changes nothing.
C29_OnlyNamedField ==
    (CliParsed /\ ~Malformed(plainOpts)) =>
        cliOptions = Written(plainOpts, 1, Len(plainOpts))

\* an entry with its keyword in capitals and an entry that names no field have been parsed
C29_Witness ==
    /\ CliParsed
    /\ Len(plainOpts) = 2
    /\ plainOpts[1].kind = "unknown"
    /\ plainOpts[2].field = "User"
    /\ cliOptions.User = <<"y">>

\* s has a character and neither a colon nor a bracket
IsName(s) == s # Empty /\ ~Contains(s, Colon) /\ ~Contains(s, LBracket) /\ ~Contains(s, RBracket)

\* brackets around something that has no colon
BracketedName(s) ==
    /\ s # Empty
    /\ s[1] = LBracket
    /\ FirstIndex(s, RBracket) > 0
    /\ ~Contains(Slice(s, 2, FirstIndex(s, RBracket) - 1), Colon)

\* a host string as it is meant to be written: a name, nothing or a bracketed address,
\* then nothing, a colon, or a colon and a port; [ok, host, port]
Address(s) ==
    LET n == Len(s)
        bad == [ok |-> FALSE, host |-> Empty, port |-> Empty]
        rest(host, r) ==
            IF r = Empty THEN [ok |-> TRUE, host |-> host, port |-> Empty]
            ELSE IF r[1] = Colon /\ (Len(r) = 1 \/ IsName(Tail(r)))
                 THEN [ok |-> TRUE, host |-> host, port |-> Tail(r)]
            ELSE bad
    IN  IF n = 0 THEN bad
        ELSE IF s[1] = LBracket
        THEN LET e == FirstIndex(s, RBracket)
             IN  IF e > 2 /\ ~Contains(Slice(s, 2, e - 1), LBracket)
                 THEN rest(Slice(s, 1, e), Slice(s, e + 1, n))
                 ELSE bad
        ELSE LET c == FirstIndex(s, Colon)
                 e == IF c = 0 THEN n ELSE c - 1
             IN  IF IsName(Slice(s, 1, e)) \/ (c = 1)
                 THEN rest(Slice(s, 1, e), Slice(s, e + 1, n))
                 ELSE bad

\* C30: cleanHost appends port 22 to a host given without a port or with an empty one,
\* returns a host given as host:port unchanged, gives the same again when it is called on
\* what it returned, and returns an error, never a value, for a malformed address
\* (brackets around a plain name are left aside).
C30_CleanHost ==
    (Cleaned /\ ~BracketedName(hosts[1])) =>
        LET a == Address(hosts[1])
            r == cleaned[1]
        IN  /\ a.ok => /\ ~r.err
                       /\ r.host = a.host \o <<Colon>> \o (IF a.port = Empty THEN Port22 ELSE a.port)
            /\ ~a.ok => r.err /\ r.host = Empty
            /\ Len(cleaned) = 2 => cleaned[2] = cleaned[1]

----------------------------------------------------------------------------
(* Failures of one host, termination, the shared methods, the transports   *)

\* C31: when cleanHost returns an error for a job's host, the job keeps the host string
\* it was given, runSSH is not called for it (no session is attempted, no command is run)
\* and its err is the address error.
C31_AddressErrorIsolated ==
    \A j \in Jobs :
        (cleanHost(hosts[j]).err /\ hist[j].taken > 0) =>
            /\ job[j].host = hosts[j]
            /\ hist[j].runs = 0
            /\ hist[j].order = << >>
            /\ hist[j].cmds = 0
            /\ job[j].err = "addr"

\* C32: multiplexAction comes to its end for every number of hosts and every value of
\* --concurrency: it returns (or the process has died), it is never left waiting for ever
\* at a send to the work channel, for the workers or for the renderer.
C32_Terminates == <>(mainpc = "returned" \/ panicked)

\* C33: when multiplexAction returns, the last render pass has shown every job as it
\* ended: a job whose err is set was printed with that error.
C33_FinalStateShown ==
    Returned =>
        \A j \in Jobs :
            job[j].err # "nil" => shown[j] = [kind |-> "err", data |-> <<job[j].err>>]

\* C34: the methods map built before the workers were started is not written while they
\* run: never are two workers inside a write to it, and never is one inside a write while
\* another is in its loop over the map.
C34_MethodsNotShared ==
    /\ Cardinality(writers) <= 1
    /\ \A w \in writers : \A v \in Workers \ {w} : wk[v].pc # "loop"

\* C35: the methods attempted for a job are among those built before the workers were
\* started and the one of the job's own effective IdentityFile: the method of one host's
\* IdentityFile is never attempted for another host.
C35_OwnIdentityOnly ==
    \A j \in Jobs :
        Tried(j) \subseteq built \cup {k \in {Options(j).IdentityFile} : k # Empty}

\* C36: when a job's runSSH has returned, every connection its NewSession attempts opened
\* has been closed: the one of the session that ran by the deferred Close, and those of
\* attempts that failed after connecting or were followed by another attempt too.
C36_TransportsClosed ==
    \A j \in Jobs : hist[j].done > 0 => hist[j].opened = hist[j].closes

(* The channels *)

\* C37: once the signal channel is closed no worker is running a command or inside
\* writer.Write, so nothing is sent on it any more, and every job is received from the
\* work channel at most once, by one worker: two workers never hold the same job.
C37_ChannelsSafe ==
    /\ signalClosed => \A w \in Workers : wk[w].pc \notin {"run", "append", "signal"}
    /\ \A j \in Jobs : hist[j].taken <= 1 /\ Cardinality(hist[j].by) <= 1
    /\ \A w, v \in Workers : (w # v /\ wk[w].job # NoJob) => wk[w].job # wk[v].job

\* the signal channel is closed after two workers each received one of two jobs and a
\* line of output was signalled to the renderer
C37_Witness ==
    /\ signalClosed
    /\ Len(job) = 2
    /\ \A j \in Jobs : hist[j].taken = 1
    /\ hist[1].by # hist[2].by
    /\ \E j \in Jobs : hist[j].sig > 0

(* The address of a host with a HostName *)

\* neither a -o entry nor a line of the config file names the port
NoPortGiven ==
    /\ LastNaming(plainOpts, 1, Len(plainOpts), "Port") = 0
    /\ \A k \in 1..Len(configFile.lines) : configFile.lines[k].field # "Port"

\* C38: for a host given as host:port whose effective options have a HostName while no
\* port was given with -o or in the config file, the address runSSH connects to is the
\* HostName with the port that was given with the host, not 22.
C38_OperatorPortKept ==
    LET sp == SplitHostPort(hosts[1])
    IN  (Resolved /\ sp.ok /\ sp.port # Empty /\ effective.HostName # Empty /\ NoPortGiven) =>
            dialled = JoinHostPort(effective.HostName, sp.port)

====
